---- MODULE Spec2Model ----
(***************************************************************************)
(* A model of the pure utilities of qiskit_ibm_runtime:                    *)
(*   api/rest/utils/data_mapper.py  (to_python_identifier,                 *)
(*                                   dict_to_identifier,                   *)
(*                                   map_jobs_limit_response)              *)
(*   utils/converters.py            (utc_to_local, local_to_utc,           *)
(*                                   seconds_to_duration,                  *)
(*                                   duration_difference, hms_to_seconds)  *)
(*                                                                         *)
(* A Python str is a sequence of one-character strings, so that the        *)
(* regular expressions of data_mapper.py are computed character by         *)
(* character.  Only ASCII text is modelled.                                *)
(***************************************************************************)
EXTENDS Integers, Sequences, FiniteSets, TLC

VARIABLES
    npc, name, ident, ident2,
    rpc, data, data0, mapper, keys, idx,
    dpc, seconds, date_time, now, time_tuple, time_str,
    call, host_tz, arg, msg_prefix, ret, back

norm_vars == <<npc, name, ident, ident2>>

rename_vars == <<rpc, data, data0, mapper, keys, idx>>

duration_vars == <<dpc, seconds, date_time, now, time_tuple, time_str>>

conv_vars == <<call, host_tz, arg, msg_prefix, ret, back>>

\* the variables a run of one component leaves alone
not_norm == <<rename_vars, duration_vars, conv_vars>>

not_rename == <<norm_vars, duration_vars, conv_vars>>

not_duration == <<norm_vars, rename_vars, conv_vars>>

not_conv == <<norm_vars, rename_vars, duration_vars>>

-----------------------------------------------------------------------------
(* Character classes of the ASCII regular expressions.                     *)

UpperSeq ==
    <<"A", "B", "C", "D", "E", "F", "G", "H", "I", "J", "K", "L", "M",
      "N", "O", "P", "Q", "R", "S", "T", "U", "V", "W", "X", "Y", "Z">>

LowerSeq ==
    <<"a", "b", "c", "d", "e", "f", "g", "h", "i", "j", "k", "l", "m",
      "n", "o", "p", "q", "r", "s", "t", "u", "v", "w", "x", "y", "z">>

\* [A-Z]
Upper == {UpperSeq[i] : i \in DOMAIN UpperSeq}

\* [a-z]
Lower == {LowerSeq[i] : i \in DOMAIN LowerSeq}

\* \d under re.ASCII
Digit == {"0", "1", "2", "3", "4", "5", "6", "7", "8", "9"}

\* \w under re.ASCII: [A-Za-z0-9_]; \W is its complement
WordChar == Upper \cup Lower \cup Digit \cup {"_"}

\* str.lower() on one ASCII character
lower_char(c) ==
    IF c \in Upper
    THEN LowerSeq[CHOOSE i \in DOMAIN UpperSeq : UpperSeq[i] = c]
    ELSE c

\* str.lower()
str_lower(s) == [i \in DOMAIN s |-> lower_char(s[i])]

\* keyword.kwlist of Python 3
kwlist ==
  { <<"F", "a", "l", "s", "e">>,
    <<"N", "o", "n", "e">>,
    <<"T", "r", "u", "e">>,
    <<"a", "n", "d">>,
    <<"a", "s">>,
    <<"a", "s", "s", "e", "r", "t">>,
    <<"a", "s", "y", "n", "c">>,
    <<"a", "w", "a", "i", "t">>,
    <<"b", "r", "e", "a", "k">>,
    <<"c", "l", "a", "s", "s">>,
    <<"c", "o", "n", "t", "i", "n", "u", "e">>,
    <<"d", "e", "f">>,
    <<"d", "e", "l">>,
    <<"e", "l", "i", "f">>,
    <<"e", "l", "s", "e">>,
    <<"e", "x", "c", "e", "p", "t">>,
    <<"f", "i", "n", "a", "l", "l", "y">>,
    <<"f", "o", "r">>,
    <<"f", "r", "o", "m">>,
    <<"g", "l", "o", "b", "a", "l">>,
    <<"i", "f">>,
    <<"i", "m", "p", "o", "r", "t">>,
    <<"i", "n">>,
    <<"i", "s">>,
    <<"l", "a", "m", "b", "d", "a">>,
    <<"n", "o", "n", "l", "o", "c", "a", "l">>,
    <<"n", "o", "t">>,
    <<"o", "r">>,
    <<"p", "a", "s", "s">>,
    <<"r", "a", "i", "s", "e">>,
    <<"r", "e", "t", "u", "r", "n">>,
    <<"t", "r", "y">>,
    <<"w", "h", "i", "l", "e">>,
    <<"w", "i", "t", "h">>,
    <<"y", "i", "e", "l", "d">> }

\* keyword.iskeyword
iskeyword(s) == s \in kwlist

\* str.isidentifier() on ASCII text: non-empty, word characters only, no
\* leading digit (a keyword is an identifier for isidentifier)
isidentifier(s) ==
    /\ Len(s) > 0
    /\ \A i \in DOMAIN s : s[i] \in WordChar
    /\ s[1] \notin Digit

-----------------------------------------------------------------------------
(* to_python_identifier                                                    *)

\* re.sub(r"\W|^(?=\d)", "_", name): every non-word character becomes "_",
\* and the empty match in front of a leading digit becomes "_"
sub_non_word(s) ==
    LET body == [i \in DOMAIN s |-> IF s[i] \in WordChar THEN s[i] ELSE "_"]
    IN  IF Len(s) > 0 /\ s[1] \in Digit THEN <<"_">> \o body ELSE body

\* if not name.isidentifier(): name = re.sub(pattern, "_", name)
sanitize(s) == IF isidentifier(s) THEN s ELSE sub_non_word(s)

\* the positions matched by
\*   ((?<=[a-z0-9])[A-Z]|(?!^)(?<!_)[A-Z](?=[a-z]))
snake_match(s, i) ==
    /\ s[i] \in Upper
    /\ \/ i > 1 /\ s[i - 1] \in (Lower \cup Digit)
       \/ /\ i > 1
          /\ s[i - 1] # "_"
          /\ i < Len(s)
          /\ s[i + 1] \in Lower

RECURSIVE snake_from(_, _)
\* the substitution r"_\1", scanning from position i
snake_from(s, i) ==
    IF i > Len(s) THEN <<>>
    ELSE (IF snake_match(s, i) THEN <<"_", s[i]>> ELSE <<s[i]>>)
         \o snake_from(s, i + 1)

\* re.sub(<snake pattern>, r"_\1", name).lower()
snake_case(s) == str_lower(snake_from(s, 1))

RECURSIVE avoid_keyword(_)
\* while keyword.iskeyword(name): name += "_"
avoid_keyword(s) == IF iskeyword(s) THEN avoid_keyword(s \o <<"_">>) ELSE s

\* a variant that tests for a keyword before the snake-case step lowers the
\* name
to_python_identifier_keyword_first(s) == snake_case(avoid_keyword(sanitize(s)))

to_python_identifier(s) == avoid_keyword(snake_case(sanitize(s)))

-----------------------------------------------------------------------------
(* Inputs of the normalisation runs.                                       *)

MaxNameLen == 4

NameAlphabet == {"i", "s", "I", "S", "2", "_", "-"}

Names == UNION {[1..n -> NameAlphabet] : n \in 0..MaxNameLen}

NormIdle ==
    /\ npc = "off"
    /\ name = <<>>
    /\ ident = <<>>
    /\ ident2 = <<>>

InitNorm ==
    /\ npc = "start"
    /\ name \in Names
    /\ ident = <<>>
    /\ ident2 = <<>>

\* ident = to_python_identifier(name)
Normalize ==
    /\ npc = "start"
    /\ ident' = to_python_identifier(name)
    /\ npc' = "once"
    /\ UNCHANGED <<name, ident2, not_norm>>

\* ident2 = to_python_identifier(ident)
NormalizeAgain ==
    /\ npc = "once"
    /\ ident2' = to_python_identifier(ident)
    /\ npc' = "twice"
    /\ UNCHANGED <<name, ident, not_norm>>

NextNorm == Normalize \/ NormalizeAgain

-----------------------------------------------------------------------------
(* dict_to_identifier and map_jobs_limit_response.                         *)
(* A dict is the sequence of its <<key, value>> entries in insertion       *)
(* order, keys distinct.                                                   *)

\* list(data.keys())
dict_keys(d) == [i \in DOMAIN d |-> d[i][1]]

\* key in data
has_key(d, k) == \E i \in DOMAIN d : d[i][1] = k

\* data[key]
dict_get(d, k) == d[CHOOSE i \in DOMAIN d : d[i][1] = k][2]

\* the dict left by data.pop(key)
dict_pop(d, k) == SelectSeq(d, LAMBDA e : e[1] # k)

\* data[key] = value: an existing key keeps its place, a new key is appended
dict_set(d, k, v) ==
    IF has_key(d, k)
    THEN [i \in DOMAIN d |-> IF d[i][1] = k THEN <<k, v>> ELSE d[i]]
    ELSE Append(d, <<k, v>>)

\* mapper[key] if key in mapper else to_python_identifier(key)
new_key_of(m, k) == IF k \in DOMAIN m THEN m[k] ELSE to_python_identifier(k)

\* a variant that copies the value and leaves the old key in place
rename_entry_keep_old(d, k, m) == dict_set(d, new_key_of(m, k), dict_get(d, k))

\* data[new_key] = data.pop(key): the pop is evaluated first
rename_entry(d, k, m) ==
    dict_set(dict_pop(d, k), new_key_of(m, k), dict_get(d, k))

\* the empty dict {}
empty_map == [k \in {} |-> k]

\* mapper = mapper or {}: None and {} both give {}
mapper_or_empty(m) == IF m.is_none THEN empty_map ELSE m.map

\* field_map of map_jobs_limit_response
field_map ==
    (<<"m","a","x","i","m","u","m","J","o","b","s">>
        :> <<"m","a","x","i","m","u","m","_","j","o","b","s">>)
    @@ (<<"r","u","n","n","i","n","g","J","o","b","s">>
        :> <<"r","u","n","n","i","n","g","_","j","o","b","s">>)

-----------------------------------------------------------------------------
(* Inputs of the renaming runs.                                            *)

MaxKeys == 3

KeyPool ==
    { <<"m","a","x","i","m","u","m","J","o","b","s">>,
      <<"m","a","x","i","m","u","m","_","j","o","b","s">>,
      <<"e","x","t","r","a","F","i","e","l","d">>,
      <<"a","B">>,
      <<"a","_","b">>,
      <<"b">>,
      <<"c">> }

Values == {1, 5}

\* the mappers a caller passes: None, {}, the example map of one entry, a map
\* whose destinations are keys themselves, a map onto a normalised name
Mappers ==
    { [is_none |-> TRUE, map |-> empty_map],
      [is_none |-> FALSE, map |-> empty_map],
      [is_none |-> FALSE,
       map |-> (<<"m","a","x","i","m","u","m","J","o","b","s">>
                  :> <<"m","a","x","i","m","u","m","_","j","o","b","s">>)],
      [is_none |-> FALSE,
       map |-> (<<"b">> :> <<"c">>) @@ (<<"c">> :> <<"d">>)],
      [is_none |-> FALSE, map |-> (<<"b">> :> <<"a","_","b">>)] }

Dicts ==
    UNION { { d \in [1..n -> KeyPool \X Values] :
                \A i, j \in 1..n : d[i][1] = d[j][1] => i = j } :
            n \in 0..MaxKeys }

RenameIdle ==
    /\ rpc = "off"
    /\ data = <<>>
    /\ data0 = <<>>
    /\ mapper = empty_map
    /\ keys = <<>>
    /\ idx = 0

InitRename ==
    /\ rpc = "idle"
    /\ data \in Dicts
    /\ data0 = data
    /\ mapper = empty_map
    /\ keys = <<>>
    /\ idx = 0

\* dict_to_identifier(data, m), up to the snapshot list(data.keys())
CallDictToIdentifier ==
    /\ rpc = "idle"
    /\ \E m \in Mappers : mapper' = mapper_or_empty(m)
    /\ keys' = dict_keys(data)
    /\ idx' = 1
    /\ rpc' = "loop"
    /\ UNCHANGED <<data, data0, not_rename>>

\* map_jobs_limit_response(data): dict_to_identifier(data, field_map)
CallMapJobsLimitResponse ==
    /\ rpc = "idle"
    /\ mapper' = mapper_or_empty([is_none |-> FALSE, map |-> field_map])
    /\ keys' = dict_keys(data)
    /\ idx' = 1
    /\ rpc' = "loop"
    /\ UNCHANGED <<data, data0, not_rename>>

\* one iteration of "for key in list(data.keys())"; data.pop(key) raises
\* KeyError when the key is gone
LoopStep ==
    /\ rpc = "loop"
    /\ idx <= Len(keys)
    /\ IF has_key(data, keys[idx])
       THEN /\ data' = rename_entry(data, keys[idx], mapper)
            /\ idx' = idx + 1
            /\ rpc' = rpc
       ELSE /\ rpc' = "KeyError"
            /\ UNCHANGED <<data, idx>>
    /\ UNCHANGED <<data0, mapper, keys, not_rename>>

\* the loop is exhausted and the function returns
Return ==
    /\ rpc = "loop"
    /\ idx > Len(keys)
    /\ rpc' = "done"
    /\ UNCHANGED <<data, data0, mapper, keys, idx, not_rename>>

NextRename ==
    \/ CallDictToIdentifier
    \/ CallMapJobsLimitResponse
    \/ LoopStep
    \/ Return

-----------------------------------------------------------------------------
(* datetime values.  Times are integers in milliseconds: wall is the       *)
(* wall-clock reading counted from the model's day 0, 00:00.  tz is the    *)
(* kind of tzinfo: "naive" (None), "utc" (timezone.utc or tz.UTC),         *)
(* "fixed" (a fixed offset off) or "local" (tz.tzlocal()).                 *)

datetime(w, t, o, f) == [wall |-> w, tz |-> t, off |-> o, fold |-> f]

\* a host time zone: its offsets and, when dst # std, the UTC instants
\* between which daylight-saving time is in force
zone(s, d, a, b) == [std |-> s, dst |-> d, dst_start |-> a, dst_end |-> b]

\* the offset of the host zone in force at a UTC instant
local_offset_at(z, inst) ==
    IF z.dst # z.std /\ z.dst_start <= inst /\ inst < z.dst_end
    THEN z.dst
    ELSE z.std

\* the fold of the local reading of a UTC instant: 1 on the second pass
\* through the repeated hour
local_fold_at(z, inst) ==
    IF z.dst # z.std /\ z.dst_end <= inst /\ inst < z.dst_end + (z.dst - z.std)
    THEN 1
    ELSE 0

\* tz.tzlocal().utcoffset(dt) of a local wall-clock reading
local_utcoffset(z, w, f) ==
    LET in_dst == /\ z.dst # z.std
                  /\ z.dst_start + z.dst <= w
                  /\ w < z.dst_end + z.dst
        in_std == \/ z.dst = z.std
                  \/ w < z.dst_start + z.std
                  \/ w >= z.dst_end + z.std
    IN  IF in_dst /\ in_std THEN (IF f = 1 THEN z.std ELSE z.dst)
        ELSE IF in_dst THEN z.dst
        ELSE z.std

\* dt.utcoffset() is None
utcoffset_is_none(dt) == dt.tz = "naive"

\* dt.utcoffset(), when it is not None
utcoffset(dt, z) ==
    CASE dt.tz = "utc" -> 0
      [] dt.tz = "fixed" -> dt.off
      [] dt.tz = "local" -> local_utcoffset(z, dt.wall, dt.fold)
      [] OTHER -> 0

\* dt.replace(tzinfo=...): the wall-clock reading and the fold are kept
replace_tzinfo(dt, t) == datetime(dt.wall, t, 0, dt.fold)

\* the UTC instant an aware datetime denotes
instant(dt, z) == dt.wall - utcoffset(dt, z)

\* dt.astimezone(tz.tzlocal()) of an aware datetime
astimezone_local(dt, z) ==
    LET inst == instant(dt, z)
    IN  datetime(inst + local_offset_at(z, inst), "local", 0,
                 local_fold_at(z, inst))

\* dt.astimezone(tz.UTC) of an aware datetime
astimezone_utc(dt, z) == datetime(instant(dt, z), "utc", 0, 0)

\* date_time.hour, date_time.minute, date_time.second
hour_of(dt) == (dt.wall \div 3600000) % 24

minute_of(dt) == (dt.wall \div 60000) % 60

second_of(dt) == (dt.wall \div 1000) % 60

-----------------------------------------------------------------------------
(* seconds_to_duration and duration_difference.                            *)
(* A float number of seconds is kept in milliseconds, so the seconds       *)
(* field of the returned tuple, which the code leaves a float, is in       *)
(* thousandths: 1500 is 1.5 and 1000 is 1.0.  The other fields are ints.   *)

\* seconds_to_duration(seconds), seconds given in milliseconds
seconds_to_duration(ms) ==
    LET days == ms \div (3600 * 24 * 1000)
        hours == (ms \div (3600 * 1000)) % 24
        minutes == (ms \div (60 * 1000)) % 60
        rest == ms % (60 * 1000)
    IN  IF rest < 1000
        THEN <<days, hours, minutes, 0, rest>>
        ELSE <<days, hours, minutes, rest, 0>>

\* the text built by the f-strings, as its tokens in order (the tokens are
\* joined by single spaces; a number stands for its rendering)
format_duration_positive_only(t) ==
    IF t[1] > 0 THEN <<t[1], "days", t[2], "hrs">>
    ELSE IF t[2] > 0 THEN <<t[2], "hrs", t[3], "min">>
    ELSE IF t[3] > 0 THEN <<t[3], "min", t[4], "sec">>
    ELSE IF t[4] > 0 THEN <<t[4], "sec">>
    ELSE <<>>

\* lines 124-136 of duration_difference
format_duration(t) ==
    IF t[1] # 0 THEN <<t[1], "days", t[2], "hrs">>
    ELSE IF t[2] # 0 THEN <<t[2], "hrs", t[3], "min">>
    ELSE IF t[3] # 0 THEN <<t[3], "min", t[4], "sec">>
    ELSE IF t[4] # 0 THEN <<t[4], "sec">>
    ELSE <<>>

\* (date_time.replace(tzinfo=None) - datetime.now()).total_seconds()
time_delta(dt, n) == replace_tzinfo(dt, "naive").wall - n

\* duration_difference(date_time) when datetime.now() reads n
duration_difference(dt, n) ==
    format_duration(seconds_to_duration(time_delta(dt, n)))

-----------------------------------------------------------------------------
(* Inputs of the duration runs.                                            *)

MaxDays == 1

\* elapsed times of up to MaxDays days, of either sign
Deltas ==
    { sg * (d * 86400000 + h * 3600000 + m * 60000 + sc * 1000 + ml) :
        sg \in {1, -1}, d \in 0..MaxDays, h \in {0, 1, 2, 23},
        m \in {0, 1, 5, 59}, sc \in {0, 1, 59}, ml \in {0, 1, 400, 500, 999} }

\* readings of datetime.now()
Nows == {0, 86399999}

DurationIdle ==
    /\ dpc = "off"
    /\ seconds = 0
    /\ date_time = datetime(0, "naive", 0, 0)
    /\ now = 0
    /\ time_tuple = <<0, 0, 0, 0, 0>>
    /\ time_str = <<>>

InitDuration ==
    /\ dpc = "idle"
    /\ seconds = 0
    /\ date_time = datetime(0, "naive", 0, 0)
    /\ now = 0
    /\ time_tuple = <<0, 0, 0, 0, 0>>
    /\ time_str = <<>>

\* time_tuple = seconds_to_duration(seconds)
CallSecondsToDuration ==
    /\ dpc = "idle"
    /\ \E ms \in Deltas :
          /\ seconds' = ms
          /\ time_tuple' = seconds_to_duration(ms)
    /\ dpc' = "tuple"
    /\ UNCHANGED <<date_time, now, time_str, not_duration>>

\* time_str = duration_difference(date_time), the target naive or aware
CallDurationDifference ==
    /\ dpc = "idle"
    /\ \E n \in Nows, dl \in Deltas, t \in {"naive", "utc", "local"} :
          /\ now' = n
          /\ date_time' = datetime(n + dl, t, 0, 0)
          /\ seconds' = time_delta(date_time', n)
          /\ time_tuple' = seconds_to_duration(seconds')
          /\ time_str' = duration_difference(date_time', n)
    /\ dpc' = "str"
    /\ UNCHANGED not_duration

NextDuration == CallSecondsToDuration \/ CallDurationDifference

-----------------------------------------------------------------------------
(* utc_to_local, local_to_utc and hms_to_seconds.                          *)
(* An argument is a Python value: a str, a datetime, or something else     *)
(* (an int, None).  A call ends in a returned value or a raised            *)
(* exception.                                                              *)

a_str(t) == [type |-> "str", text |-> t, dt |-> datetime(0, "naive", 0, 0)]

a_datetime(d) == [type |-> "datetime", text |-> "", dt |-> d]

a_other(ty) == [type |-> ty, text |-> "", dt |-> datetime(0, "naive", 0, 0)]

returns_datetime(d) ==
    [ok |-> TRUE, exc |-> "", msg |-> "", dt |-> d, int |-> 0]

returns_int(n) ==
    [ok |-> TRUE, exc |-> "", msg |-> "",
     dt |-> datetime(0, "naive", 0, 0), int |-> n]

raises(e, m) ==
    [ok |-> FALSE, exc |-> e, msg |-> m,
     dt |-> datetime(0, "naive", 0, 0), int |-> 0]

no_result == raises("", "")

\* the day 2021-03-05 and the day parser.parse fills in for a text without
\* a date, counted from the model's day 0
day_2021_03_05 == 2 * 86400000

day_default == 1 * 86400000

\* dateutil's parser.parse on the texts of the model: the datetime it
\* builds, or the ParserError it raises
parser_parse(t) ==
    CASE t = "2h 10m 20s" ->
           returns_datetime(datetime(day_default + 7820000, "naive", 0, 0))
      [] t = "10:20" ->
           returns_datetime(datetime(day_default + 37200000, "naive", 0, 0))
      [] t = "2021-03-05 01:02:03" ->
           returns_datetime(datetime(day_2021_03_05 + 3723000, "naive", 0, 0))
      [] t = "2021-03-05" ->
           returns_datetime(datetime(day_2021_03_05, "naive", 0, 0))
      [] t = "2021-03-05T12:00:00Z" ->
           returns_datetime(datetime(day_2021_03_05 + 43200000, "utc", 0, 0))
      [] t = "2021-03-05T12:00:00+05:30" ->
           returns_datetime(
               datetime(day_2021_03_05 + 43200000, "fixed", 19800000, 0))
      [] t = "not a time" ->
           raises("ParserError", "Unknown string format: not a time")
      [] t = "25:00" ->
           raises("ParserError", "hour must be in 0..23: 25:00")
      [] OTHER ->
           raises("ParserError", "String does not contain a date: " \o t)

\* a variant that reports a bad argument type with the package's own error
utc_to_local_input_error(x, z) ==
    LET parsed == IF x.type = "str" THEN parser_parse(x.text)
                  ELSE returns_datetime(x.dt)
    IN  IF x.type = "str" /\ ~parsed.ok THEN parsed
        ELSE IF x.type \notin {"str", "datetime"}
        THEN raises("IBMInputValueError",
                    "Input utc_dt is not string or datetime.")
        ELSE returns_datetime(
                 astimezone_local(replace_tzinfo(parsed.dt, "utc"), z))

\* utc_to_local(utc_dt) on a host whose local zone is z
utc_to_local(x, z) ==
    LET parsed == IF x.type = "str" THEN parser_parse(x.text)
                  ELSE returns_datetime(x.dt)
    IN  IF x.type = "str" /\ ~parsed.ok THEN parsed
        ELSE IF x.type \notin {"str", "datetime"}
        THEN raises("TypeError", "Input utc_dt is not string or datetime.")
        ELSE returns_datetime(
                 astimezone_local(replace_tzinfo(parsed.dt, "utc"), z))

\* a variant whose converting branch attaches UTC instead of the local zone
local_to_utc_attach_utc(x, z) ==
    LET parsed == IF x.type = "str" THEN parser_parse(x.text)
                  ELSE returns_datetime(x.dt)
        dt == parsed.dt
    IN  IF x.type = "str" /\ ~parsed.ok THEN parsed
        ELSE IF x.type \notin {"str", "datetime"}
        THEN raises("TypeError", "Input local_dt is not string or datetime.")
        ELSE IF utcoffset_is_none(dt) \/ utcoffset(dt, z) # 0
        THEN returns_datetime(astimezone_utc(replace_tzinfo(dt, "utc"), z))
        ELSE returns_datetime(dt)

\* local_to_utc(local_dt) on a host whose local zone is z
local_to_utc(x, z) ==
    LET parsed == IF x.type = "str" THEN parser_parse(x.text)
                  ELSE returns_datetime(x.dt)
        dt == parsed.dt
    IN  IF x.type = "str" /\ ~parsed.ok THEN parsed
        ELSE IF x.type \notin {"str", "datetime"}
        THEN raises("TypeError", "Input local_dt is not string or datetime.")
        ELSE IF utcoffset_is_none(dt) \/ utcoffset(dt, z) # 0
        THEN returns_datetime(astimezone_utc(replace_tzinfo(dt, "local"), z))
        ELSE returns_datetime(dt)

\* a variant that adds up the whole wall-clock reading, date included
hms_to_seconds_with_date(t, prefix) ==
    LET parsed == parser_parse(t)
    IN  IF parsed.ok
        THEN returns_int(parsed.dt.wall \div 1000)
        ELSE raises("IBMInputValueError", prefix \o parsed.msg)

\* hms_to_seconds(hms, msg_prefix)
hms_to_seconds(t, prefix) ==
    LET parsed == parser_parse(t)
    IN  IF parsed.ok
        THEN returns_int(hour_of(parsed.dt) * 3600 + minute_of(parsed.dt) * 60
                         + second_of(parsed.dt))
        ELSE raises("IBMInputValueError", prefix \o parsed.msg)

-----------------------------------------------------------------------------
(* Inputs of the conversion runs.                                          *)

MaxWallHours == 8

\* host zones: fixed offsets west of, at and east of UTC, and two zones
\* with daylight-saving time (one of them at offset zero in winter)
Zones ==
    { zone(-18000000, -18000000, 0, 0),
      zone(0, 0, 0, 0),
      zone(3600000, 3600000, 0, 0),
      zone(19800000, 19800000, 0, 0),
      zone(0, 3600000, 2 * 3600000, 5 * 3600000),
      zone(-18000000, -14400000, 7200000, 21600000) }

Texts ==
    { "2h 10m 20s", "10:20", "2021-03-05 01:02:03", "2021-03-05",
      "2021-03-05T12:00:00Z", "2021-03-05T12:00:00+05:30",
      "not a time", "25:00", "" }

Prefixes == {"", "prefix: "}

\* datetime arguments: every half hour up to MaxWallHours, naive, UTC, at a
\* fixed offset or in the local zone
Datetimes ==
    { datetime(h * 1800000, "naive", 0, 0) : h \in 0..(2 * MaxWallHours) }
    \cup { datetime(h * 1800000, "utc", 0, 0) : h \in 0..(2 * MaxWallHours) }
    \cup { datetime(h * 1800000, "fixed", 7200000, 0) :
             h \in 0..(2 * MaxWallHours) }
    \cup { datetime(h * 1800000, "local", 0, f) :
             h \in 0..(2 * MaxWallHours), f \in {0, 1} }

Arguments ==
    { a_str(t) : t \in Texts }
    \cup { a_datetime(d) : d \in Datetimes }
    \cup { a_other("int"), a_other("NoneType") }

ConvIdle ==
    /\ call = "off"
    /\ host_tz = zone(0, 0, 0, 0)
    /\ arg = a_other("NoneType")
    /\ msg_prefix = ""
    /\ ret = no_result
    /\ back = no_result

InitConv ==
    /\ call = "idle"
    /\ host_tz \in Zones
    /\ arg = a_other("NoneType")
    /\ msg_prefix = ""
    /\ ret = no_result
    /\ back = no_result

\* ret = utc_to_local(arg)
CallUtcToLocal ==
    /\ call = "idle"
    /\ \E x \in Arguments :
          /\ arg' = x
          /\ ret' = utc_to_local(x, host_tz)
    /\ call' = "utc_to_local"
    /\ UNCHANGED <<host_tz, msg_prefix, back, not_conv>>

\* ret = local_to_utc(arg)
CallLocalToUtc ==
    /\ call = "idle"
    /\ \E x \in Arguments :
          /\ arg' = x
          /\ ret' = local_to_utc(x, host_tz)
    /\ call' = "local_to_utc"
    /\ UNCHANGED <<host_tz, msg_prefix, back, not_conv>>

\* back = local_to_utc(ret), ret the datetime utc_to_local returned
CallLocalToUtcOfResult ==
    /\ call = "utc_to_local"
    /\ ret.ok
    /\ back' = local_to_utc(a_datetime(ret.dt), host_tz)
    /\ call' = "round_trip"
    /\ UNCHANGED <<host_tz, arg, msg_prefix, ret, not_conv>>

\* ret = hms_to_seconds(arg, msg_prefix)
CallHmsToSeconds ==
    /\ call = "idle"
    /\ \E t \in Texts, p \in Prefixes :
          /\ arg' = a_str(t)
          /\ msg_prefix' = p
          /\ ret' = hms_to_seconds(t, p)
    /\ call' = "hms_to_seconds"
    /\ UNCHANGED <<host_tz, back, not_conv>>

NextConv ==
    \/ CallUtcToLocal
    \/ CallLocalToUtc
    \/ CallLocalToUtcOfResult
    \/ CallHmsToSeconds

-----------------------------------------------------------------------------

vars == <<norm_vars, rename_vars, duration_vars, conv_vars>>

\* runs of to_python_identifier, applied once and then to its own result
StartNorm == InitNorm /\ RenameIdle /\ DurationIdle /\ ConvIdle

SpecNorm == StartNorm /\ [][NextNorm]_vars

\* runs of dict_to_identifier and map_jobs_limit_response
StartRename == InitRename /\ NormIdle /\ DurationIdle /\ ConvIdle

SpecRename == StartRename /\ [][NextRename]_vars

\* runs of seconds_to_duration and duration_difference
StartDuration == InitDuration /\ NormIdle /\ RenameIdle /\ ConvIdle

SpecDuration == StartDuration /\ [][NextDuration]_vars

\* runs of utc_to_local, local_to_utc and hms_to_seconds
StartConv == InitConv /\ NormIdle /\ RenameIdle /\ DurationIdle

SpecConv == StartConv /\ [][NextConv]_vars

-----------------------------------------------------------------------------
(* Properties of to_python_identifier (SpecNorm).                          *)

\* C1: whatever the input, the name returned is a valid identifier:
\* non-empty, made of letters, digits and "_" only, not starting with a
\* digit, and not a reserved keyword.
C1_ValidIdentifier ==
    npc \in {"once", "twice"} =>
        /\ Len(ident) > 0
        /\ \A i \in DOMAIN ident :
              ident[i] \in Upper \cup Lower \cup Digit \cup {"_"}
        /\ ident[1] \notin Digit
        /\ ident \notin kwlist

\* C2: to_python_identifier is idempotent: applied to its own result it
\* returns that result unchanged.
C2_Idempotent == npc = "twice" => ident2 = ident

\* C2, witness: a second application to a result that the first one made
\* longer than the input (an underscore inserted or a keyword suffixed).
C2_Witness ==
    /\ npc = "twice"
    /\ Len(ident) > Len(name)
    /\ \E i \in DOMAIN name : name[i] \in Upper
    /\ ident2 = ident

-----------------------------------------------------------------------------
(* Properties of dict_to_identifier (SpecRename).                          *)

\* the destination of a source key under the mapper of the call
Dest(k) == new_key_of(mapper, k)

\* C3: after dict_to_identifier returns, every original entry (k, v) is
\* found under Dest(k) with its value v, and the record holds no other
\* entries.
C3_EveryEntryRenamed ==
    rpc = "done" =>
        /\ \A i \in DOMAIN data0 :
              /\ has_key(data, Dest(data0[i][1]))
              /\ dict_get(data, Dest(data0[i][1])) = data0[i][2]
        /\ \A j \in DOMAIN data :
              \E i \in DOMAIN data0 : data[j][1] = Dest(data0[i][1])

\* C9: when several source keys have the same destination, the destination
\* ends up holding the original value of the one that comes last in the
\* record's iteration order.
C9_LastWriteWins ==
    rpc = "done" =>
        \A i, j \in DOMAIN data0 :
            ( /\ i < j
              /\ Dest(data0[i][1]) = Dest(data0[j][1])
              /\ \A l \in DOMAIN data0 :
                    l > j => Dest(data0[l][1]) # Dest(data0[j][1]) )
            => /\ has_key(data, Dest(data0[j][1]))
               /\ dict_get(data, Dest(data0[j][1])) = data0[j][2]

\* C10: the loop never pops a missing key (every key of the snapshot still
\* to be processed is in the record), and on return every key of the record
\* is the destination of an original key, so the record has not grown.
C10_NoKeyErrorNoGrowth ==
    /\ rpc # "KeyError"
    /\ rpc = "loop" => \A j \in idx..Len(keys) : has_key(data, keys[j])
    /\ rpc = "done" =>
          /\ \A j \in DOMAIN data :
                \E i \in DOMAIN data0 : data[j][1] = Dest(data0[i][1])
          /\ Len(data) <= Len(data0)

\* C10, witness: a call has returned on a record in which the destination
\* of one key is another key of the record, and entries were merged.
C10_Witness ==
    /\ rpc = "done"
    /\ Len(data) < Len(data0)
    /\ \E i, j \in DOMAIN data0 : i # j /\ Dest(data0[i][1]) = data0[j][1]

-----------------------------------------------------------------------------
(* Properties of seconds_to_duration and duration_difference               *)
(* (SpecDuration).                                                         *)

\* C4: seconds_to_duration returns five non-negative integers with
\* hours < 24, minutes < 60, seconds < 60 and milliseconds < 1000 that add
\* up to the input; 90061.5 gives (1, 1, 1, 1, 500), 0.4 gives
\* (0, 0, 0, 0, 400).  (An integral seconds field is a multiple of 1000 in
\* thousandths.)
C4_NormalizedDuration ==
    dpc \in {"tuple", "str"} =>
        /\ \A i \in 1..5 : time_tuple[i] >= 0
        /\ time_tuple[4] % 1000 = 0
        /\ time_tuple[2] < 24
        /\ time_tuple[3] < 60
        /\ time_tuple[4] < 60 * 1000
        /\ time_tuple[5] < 1000
        /\ time_tuple[1] * 86400000 + time_tuple[2] * 3600000
             + time_tuple[3] * 60000 + time_tuple[4] + time_tuple[5] = seconds
        /\ seconds = 90061500 => time_tuple = <<1, 1, 1, 1000, 500>>
        /\ seconds = 400 => time_tuple = <<0, 0, 0, 0, 400>>

\* C5: duration_difference renders seconds_to_duration(target - now) by its
\* first non-zero field alone: days with hours, else hours with minutes,
\* else minutes with seconds, else seconds, else the empty text; a target 2
\* hours 5 minutes ahead gives "2 hrs 5 min".
C5_FirstNonZeroField ==
    dpc = "str" =>
        LET t == seconds_to_duration(date_time.wall - now)
        IN  /\ t[1] # 0 => time_str = <<t[1], "days", t[2], "hrs">>
            /\ t[1] = 0 /\ t[2] # 0 => time_str = <<t[2], "hrs", t[3], "min">>
            /\ t[1] = 0 /\ t[2] = 0 /\ t[3] # 0
                 => time_str = <<t[3], "min", t[4], "sec">>
            /\ t[1] = 0 /\ t[2] = 0 /\ t[3] = 0 /\ t[4] # 0
                 => time_str = <<t[4], "sec">>
            /\ t[1] = 0 /\ t[2] = 0 /\ t[3] = 0 /\ t[4] = 0
                 => time_str = <<>>
            /\ date_time.wall - now = 2 * 3600000 + 5 * 60000
                 => time_str = <<2, "hrs", 5, "min">>

\* C5, witness: a target exactly 2 hours 5 minutes ahead was rendered.
C5_Witness ==
    /\ dpc = "str"
    /\ date_time.wall - now = 2 * 3600000 + 5 * 60000
    /\ time_str = <<2, "hrs", 5, "min">>

-----------------------------------------------------------------------------
(* Properties of utc_to_local, local_to_utc and hms_to_seconds (SpecConv). *)

\* the moment the argument of utc_to_local denotes when read as UTC
ArgAsUtc ==
    IF arg.type = "str" THEN parser_parse(arg.text).dt.wall ELSE arg.dt.wall

\* the argument is neither a datetime nor a str
ArgOfWrongType == arg.type \notin {"str", "datetime"}

\* the argument is a str the parser rejects
ArgUnparseable == arg.type = "str" /\ ~parser_parse(arg.text).ok

\* C6: local_to_utc(utc_to_local(u)) denotes the instant u denotes as UTC,
\* whatever the offset of the host zone.
C6_RoundTrip ==
    call = "round_trip" =>
        /\ back.ok
        /\ back.dt.tz # "naive"
        /\ instant(back.dt, host_tz) = ArgAsUtc

\* C6, witness: a round trip in which local_to_utc found a zero offset and
\* returned its argument unchanged, on a host whose offset is not always
\* zero.
C6_Witness ==
    /\ call = "round_trip"
    /\ host_tz.dst # host_tz.std
    /\ back.ok
    /\ back.dt = ret.dt
    /\ ArgAsUtc > 0

====
